---- MODULE Spec2Model ----
(***************************************************************************)
(* Virtual-TA retrieval pipeline.                                          *)
(*                                                                         *)
(*   SpecEmbed : src/embed.py, one run of main(): the chunks are cut into  *)
(*               batches, every batch is a coroutine (process_batch ->     *)
(*               embed_batch) that posts to the embedding service, retries *)
(*               on request/status errors and sleeps between attempts;     *)
(*               main gathers, consolidates and saves.                     *)
(*   SpecIndex : src/faiss_index.py create_faiss_index building the index  *)
(*               and the side-table from embeddings.json, and               *)
(*               src/retriever.py loading both and answering searches.     *)
(*   SpecCredential : the embedding run and the searches side by side, for *)
(*               what happens to AIPIPE_TOKEN.                             *)
(*   SpecAnswer : src/main.py, calls of the /api/ endpoint answer_question.*)
(*   SpecChunk : src/chunk_content.py, one run of main().                  *)
(***************************************************************************)
EXTENDS Integers, Sequences, FiniteSets, TLC

VARIABLES
    \* ---- src/embed.py ----
    chunksFile,       \* ./data/chunks.json (INPUT_FILE): [exists, data]
    token,            \* AIPIPE_TOKEN is set in the environment
    embeddingsFile,   \* ./data/embeddings.json (OUTPUT_FILE / EMBEDDINGS_FILE)
    mainpc,           \* position of main()
    bpc,              \* position of each process_batch task
    attempt,          \* embed_batch: loop variable `attempt` of each task
    requests,         \* client.post calls made by each task
    slept,            \* seconds each task spent in asyncio.sleep
    failures,         \* requests of each task that ended in the except branch
    served,           \* body (data['data']) of the last 2xx reply to each task
    embeddings,       \* process_batch: value embed_batch returned to each task
    bresult,          \* value each process_batch task returned
    completed,        \* task indices in the order the tasks finished
    embedded_chunks,  \* main(): the consolidated list
    log,              \* what the run printed about skipped batches and its result
    \* ---- src/faiss_index.py, src/retriever.py ----
    indexFile,        \* ./data/faiss_index.bin
    mappingFile,      \* ./data/index_to_chunk_map.json
    priorIndexFile,   \* the two artifacts as they were before this build
    priorMappingFile,
    buildpc,          \* position of create_faiss_index
    loadpc,           \* position of retriever.py's module-level load
    index,            \* retriever.py: the loaded index
    index_to_chunk,   \* retriever.py: the loaded side-table
    searchpc,         \* outcome of the last search
    searcher,         \* which function ran it: search_index / search_faiss_index
    used_index,       \* the index the search ran on
    used_table,       \* the side-table the search resolved against
    query_requests,   \* client.post calls made by embed_query
    query_vector,     \* the embedded query
    k,                \* requested number of results
    labels,           \* indices[0] returned by index.search
    distances,        \* distances[0] returned by index.search
    results,          \* the list the search returned
    \* ---- src/main.py ----
    apc,              \* position of each call of answer_question
    retrieved_chunks, \* what `await search_index(...)` gave each call
    final_answer,     \* what `await generate_final_answer(...)` gave each call
    response,         \* the HTTP response each call ended with
    \* ---- src/chunk_content.py ----
    courseFile,       \* ./data/course_content.json (COURSE_FILE)
    discourseFile,    \* ./data/discourse.json (DISCOURSE_FILE)
    all_chunks,       \* main(): the list both passes append to
    chunkpc           \* position of chunk_content.py's main()

embedVars == <<chunksFile, token, mainpc, bpc, attempt, requests, slept,
               failures, served, embeddings, bresult, completed, embedded_chunks,
               log>>
indexVars == <<indexFile, mappingFile, priorIndexFile, priorMappingFile,
               buildpc, loadpc, index, index_to_chunk, searchpc, searcher,
               used_index, used_table, query_requests, query_vector, k, labels,
               distances, results>>
answerVars == <<apc, retrieved_chunks, final_answer, response>>
chunkVars == <<courseFile, discourseFile, all_chunks, chunkpc>>
vars == <<embedVars, embeddingsFile, indexVars, answerVars, chunkVars>>

----------------------------------------------------------------------------
\* Bounds of the model.

\* Largest number of chunks in chunks.json.
MaxChunks == 5

\* embed.py BATCH_SIZE, scaled down from 200 so that a run has several batches.
BATCH_SIZE == 2

\* Largest number of records in embeddings.json, and largest k of a search.
MaxVecs == 2
MaxK == 3

\* embed_batch(..., retries: int = 3, delay: int = 5)
Retries == 3
Delay == 5

Min(a, b) == IF a < b THEN a ELSE b

NoIndex == [d |-> 0, xb |-> <<>>]
NoFile == [exists |-> FALSE, data |-> <<>>]
File(d) == [exists |-> TRUE, data |-> d]

----------------------------------------------------------------------------
\* src/embed.py

\* The i-th chunk record of chunks.json: page_content and metadata.
Text(i) == IF i % 2 = 1 THEN "a" ELSE "b"
Chunk(i) == [page_content |-> Text(i), metadata |-> [chunk_id |-> i]]
ChunkList(n) == [i \in 1..n |-> Chunk(i)]

\* main(): for i in range(0, len(chunks), BATCH_SIZE): batch = chunks[i:i+BATCH_SIZE]
NumBatches(chunks) == (Len(chunks) + BATCH_SIZE - 1) \div BATCH_SIZE
BatchStart(b) == (b - 1) * BATCH_SIZE
BatchOf(chunks, b) ==
    SubSeq(chunks, BatchStart(b) + 1, Min(BatchStart(b) + BATCH_SIZE, Len(chunks)))
Batches == 1..NumBatches(chunksFile.data)

\* process_batch: texts_to_embed = [chunk['page_content'] for chunk in batch]
TextsToEmbed(batch) == [i \in 1..Len(batch) |-> batch[i].page_content]

\* The embedding service: the body of a 2xx reply carrying cnt items for the
\* request number att of task b.  An embedding is an opaque value to embed.py;
\* it is tagged with the text it was computed for and the place it was served.
ServiceData(texts, b, att, cnt) ==
    [i \in 1..cnt |->
        [index |-> i - 1,
         embedding |-> [of |-> IF i <= Len(texts) THEN texts[i] ELSE "",
                        req |-> <<b, att>>, pos |-> i]]]

\* The replies the service can give to one request.
FailureKinds == {"status4xx", "status5xx", "request_error"}
BodyKinds == {"exact", "fewer", "more", "no_data"}

\* embed_batch: batch_embeddings = [item['embedding'] for item in data['data']]
ExtractReversed(data) == [i \in 1..Len(data) |-> data[Len(data) + 1 - i].embedding]
ExtractEmbeddings(data) == [i \in 1..Len(data) |-> data[i].embedding]

\* api_key = os.getenv("AIPIPE_TOKEN"); if not api_key (embed.py 29-31 and
\* 75, retriever.py 41-43, faiss_index.py 78-80)
MissingKeyIgnored(tok) == FALSE
MissingKey(tok) == ~tok

\* embed_batch: except (httpx.RequestError, httpx.HTTPStatusError); the latter
\* is what raise_for_status raises for a 4xx as for a 5xx status.
CaughtServerOnly(kind) == kind \in {"status5xx", "request_error"}
Caught(kind) == kind \in {"status4xx", "status5xx", "request_error"}

\* embed_batch: for attempt in range(retries) ... if attempt < retries - 1
MayRetryNever(att) == FALSE
MayRetry(att) == att < Retries - 1

None == [none |-> TRUE, vecs |-> <<>>]
Some(v) == [none |-> FALSE, vecs |-> v]

\* process_batch: chunk['embedding'] = embeddings[i] for i, chunk in enumerate(batch)
PairFirst(batch, embs) ==
    [i \in 1..Len(batch) |->
        [page_content |-> batch[i].page_content, metadata |-> batch[i].metadata,
         embedding |-> embs[1]]]
PairWithEmbeddings(batch, embs) ==
    [i \in 1..Len(batch) |->
        [page_content |-> batch[i].page_content, metadata |-> batch[i].metadata,
         embedding |-> embs[i]]]

\* tqdm_asyncio.gather(*tasks): the tasks' results in the order of the tasks.
GatherCompletionOrder(res, order) == [i \in 1..Len(order) |-> res[order[i]]]
Gather(res, order) == [i \in 1..Len(order) |-> res[i]]

\* The gather returns once every task has returned.
FirstJoined(pcs) == \E b \in DOMAIN pcs : pcs[b] = "returned"
AllSettled(pcs) == \A b \in DOMAIN pcs : pcs[b] \in {"returned", "raised"}
AllJoined(pcs) == \A b \in DOMAIN pcs : pcs[b] = "returned"

\* main() lines 99-107: the file is written only when there is something
\* to write; the run prints how many chunks it embedded, or that it embedded
\* none.
SaveAlways(all, file) == File(all)
Save(all, file) == IF all # <<>> THEN File(all) ELSE file
Summary(all) ==
    IF all # <<>> THEN [line |-> "embedded", n |-> Len(all)]
    ELSE [line |-> "no_chunks", n |-> 0]

\* process_batch line 118: the line printed for a skipped batch.
SkipLineBatchNumber(b) == [line |-> "skipping_batch", n |-> b]
SkipLine(b) == [line |-> "skipping_batch", n |-> BatchStart(b)]

\* main(): for batch_result in results: if batch_result: embedded_chunks.extend(...)
RECURSIVE Consolidate(_)
Consolidate(rs) ==
    IF rs = <<>> THEN <<>>
    ELSE IF Len(Head(rs)) > 0 THEN Head(rs) \o Consolidate(Tail(rs))
         ELSE Consolidate(Tail(rs))

\* Nothing of src/main.py or src/chunk_content.py is running.
AnswerIdle ==
    /\ apc = <<>> /\ retrieved_chunks = <<>> /\ final_answer = <<>>
    /\ response = <<>>
ChunkIdle ==
    /\ courseFile = NoFile /\ discourseFile = NoFile
    /\ all_chunks = <<>> /\ chunkpc = "idle"

IndexIdle ==
    /\ indexFile = NoFile /\ mappingFile = NoFile
    /\ priorIndexFile = NoFile /\ priorMappingFile = NoFile
    /\ buildpc = "idle" /\ loadpc = "idle"
    /\ index = NoFile /\ index_to_chunk = NoFile
    /\ searchpc = "idle" /\ searcher = "none"
    /\ used_index = NoIndex /\ used_table = <<>> /\ query_requests = 0
    /\ query_vector = <<>> /\ k = 0
    /\ labels = <<>> /\ distances = <<>> /\ results = <<>>

\* A file left by an earlier run of embed.py.
StaleEmbeddings ==
    <<[page_content |-> "old", metadata |-> [chunk_id |-> 0],
       embedding |-> [of |-> "old", req |-> <<0, 0>>, pos |-> 1]]>>

InitEmbed ==
    /\ AnswerIdle /\ ChunkIdle
    /\ chunksFile \in {NoFile} \cup {File(ChunkList(n)) : n \in 0..MaxChunks}
    /\ token \in BOOLEAN
    /\ embeddingsFile \in {NoFile, File(StaleEmbeddings)}
    /\ mainpc = "start"
    /\ bpc = [b \in Batches |-> "created"]
    /\ attempt = [b \in Batches |-> 0]
    /\ requests = [b \in Batches |-> 0]
    /\ slept = [b \in Batches |-> 0]
    /\ failures = [b \in Batches |-> 0]
    /\ served = [b \in Batches |-> <<>>]
    /\ embeddings = [b \in Batches |-> None]
    /\ bresult = [b \in Batches |-> <<>>]
    /\ completed = <<>>
    /\ embedded_chunks = <<>>
    /\ log = {}
    /\ IndexIdle

\* main() lines 65-78: load the chunks, check the token, then create the tasks
\* and enter the gather.
MainStart ==
    /\ mainpc = "start"
    /\ mainpc' = IF ~chunksFile.exists THEN "no_input"
                 ELSE IF MissingKey(token) THEN "no_token"
                 ELSE "gathering"
    /\ log' = IF ~chunksFile.exists THEN {[line |-> "no_input", n |-> 0]}
              ELSE IF MissingKey(token) THEN {[line |-> "no_token", n |-> 0]}
              ELSE log
    /\ UNCHANGED <<chunksFile, token, bpc, attempt, requests, slept, failures, served,
                   embeddings, bresult, completed, embedded_chunks,
                   embeddingsFile, indexVars, answerVars, chunkVars>>

\* process_batch starts: embed_batch checks the key (lines 29-31), then the
\* first pass of the loop posts the request (line 45).
TaskStart(b) ==
    /\ mainpc = "gathering"
    /\ bpc[b] = "created"
    /\ IF ~MissingKey(token)
       THEN /\ bpc' = [bpc EXCEPT ![b] = "posted"]
            /\ requests' = [requests EXCEPT ![b] = @ + 1]
            /\ completed' = completed
       ELSE /\ bpc' = [bpc EXCEPT ![b] = "raised"]
            /\ requests' = requests
            /\ completed' = Append(completed, b)
    /\ UNCHANGED <<chunksFile, token, mainpc, attempt, slept, failures, served,
                   embeddings, bresult, embedded_chunks, log, embeddingsFile,
                   indexVars, answerVars, chunkVars>>

\* The request fails with httpx.RequestError or HTTPStatusError (lines 53-60):
\* sleep and go round again, or give up on the last pass and return None, on
\* which process_batch returns [] (lines 117-119).
ReplyFailure(b, kind) ==
    /\ mainpc = "gathering"
    /\ bpc[b] = "posted"
    /\ kind \in FailureKinds
    /\ IF ~Caught(kind)
       THEN /\ bpc' = [bpc EXCEPT ![b] = "raised"]
            /\ completed' = Append(completed, b)
            /\ UNCHANGED <<failures, embeddings, bresult, log>>
       ELSE /\ failures' = [failures EXCEPT ![b] = @ + 1]
            /\ IF MayRetry(attempt[b])
               THEN /\ bpc' = [bpc EXCEPT ![b] = "sleeping"]
                    /\ UNCHANGED <<embeddings, bresult, completed, log>>
               ELSE /\ bpc' = [bpc EXCEPT ![b] = "returned"]
                    /\ embeddings' = [embeddings EXCEPT ![b] = None]
                    /\ bresult' = [bresult EXCEPT ![b] = <<>>]
                    /\ completed' = Append(completed, b)
                    /\ log' = log \cup {SkipLine(b)}
    /\ UNCHANGED <<chunksFile, token, mainpc, attempt, requests, slept, served,
                   embedded_chunks, embeddingsFile, indexVars, answerVars, chunkVars>>

\* asyncio.sleep(delay) is over (line 57): the next pass of the loop posts again.
WakeAndRetry(b) ==
    /\ mainpc = "gathering"
    /\ bpc[b] = "sleeping"
    /\ slept' = [slept EXCEPT ![b] = @ + Delay]
    /\ attempt' = [attempt EXCEPT ![b] = @ + 1]
    /\ requests' = [requests EXCEPT ![b] = @ + 1]
    /\ bpc' = [bpc EXCEPT ![b] = "posted"]
    /\ UNCHANGED <<chunksFile, token, mainpc, failures, served, embeddings,
                   bresult, completed, embedded_chunks, log, embeddingsFile,
                   indexVars, answerVars, chunkVars>>

\* A 2xx reply (lines 46-51): embed_batch returns what the body holds, and
\* process_batch pairs it with the batch (lines 121-127).  A body without
\* data/embedding raises KeyError in embed_batch, a body with fewer items than
\* the batch raises IndexError in process_batch; neither is caught.
ReplySuccess(b, kind) ==
    /\ mainpc = "gathering"
    /\ bpc[b] = "posted"
    /\ kind \in BodyKinds
    /\ LET batch == BatchOf(chunksFile.data, b)
           n == Len(batch)
           cnt == CASE kind = "exact" -> n
                    [] kind = "fewer" -> n - 1
                    [] kind = "more" -> n + 1
                    [] OTHER -> 0
           data == ServiceData(TextsToEmbed(batch), b, attempt[b], cnt)
           embs == ExtractEmbeddings(data)
       IN IF kind = "no_data"
          THEN /\ bpc' = [bpc EXCEPT ![b] = "raised"]
               /\ UNCHANGED <<served, embeddings, bresult>>
          ELSE /\ served' = [served EXCEPT ![b] = data]
               /\ embeddings' = [embeddings EXCEPT ![b] = Some(embs)]
               /\ IF Len(embs) < n
                  THEN /\ bpc' = [bpc EXCEPT ![b] = "raised"]
                       /\ bresult' = bresult
                  ELSE /\ bpc' = [bpc EXCEPT ![b] = "returned"]
                       /\ bresult' = [bresult EXCEPT ![b] =
                                         PairWithEmbeddings(batch, embs)]
    /\ completed' = Append(completed, b)
    /\ UNCHANGED <<chunksFile, token, mainpc, attempt, requests, slept, failures,
                   embedded_chunks, log, embeddingsFile, indexVars, answerVars, chunkVars>>

\* Every task returned: the gather hands back the results, main consolidates
\* them (lines 94-97) and saves when there is anything to save (lines 99-107).
MainFinish ==
    /\ mainpc = "gathering"
    /\ AllJoined(bpc)
    /\ LET gathered == Gather(bresult, completed)
           all == Consolidate(gathered)
       IN /\ embedded_chunks' = all
          /\ embeddingsFile' = Save(all, embeddingsFile)
          /\ log' = log \cup {Summary(all)}
    /\ mainpc' = "done"
    /\ UNCHANGED <<chunksFile, token, bpc, attempt, requests, slept, failures, served,
                   embeddings, bresult, completed, indexVars, answerVars, chunkVars>>

\* A task raised: the exception leaves the gather and main(), and asyncio.run
\* cancels the tasks that are still pending.
MainAbort ==
    /\ mainpc = "gathering"
    /\ \E b \in Batches : bpc[b] = "raised"
    /\ mainpc' = "aborted"
    /\ bpc' = [b \in Batches |->
                  IF bpc[b] \in {"returned", "raised"} THEN bpc[b] ELSE "cancelled"]
    /\ UNCHANGED <<chunksFile, token, attempt, requests, slept, failures, served,
                   embeddings, bresult, completed, embedded_chunks, log,
                   embeddingsFile, indexVars, answerVars, chunkVars>>

NextEmbed ==
    \/ MainStart
    \/ \E b \in Batches : TaskStart(b)
    \/ \E b \in Batches : \E kind \in FailureKinds : ReplyFailure(b, kind)
    \/ \E b \in Batches : WakeAndRetry(b)
    \/ \E b \in Batches : \E kind \in BodyKinds : ReplySuccess(b, kind)
    \/ MainFinish
    \/ MainAbort

SpecEmbed == InitEmbed /\ [][NextEmbed]_vars

----------------------------------------------------------------------------
\* src/faiss_index.py and src/retriever.py

\* An embedding is a list of numbers; the model takes small integer vectors.
Coords == {0, 1}
Dims == {1, 2}
Vectors == UNION {[1..d -> Coords] : d \in Dims}

\* A record of embeddings.json: a chunk record plus its embedding.
EmbeddedChunk(i, v) ==
    [page_content |-> Text(i), metadata |-> [chunk_id |-> i], embedding |-> v]
EmbeddedLists ==
    UNION {{[i \in 1..n |-> EmbeddedChunk(i, vs[i])] : vs \in [1..n -> Vectors]}
              : n \in 0..MaxVecs}

\* create_faiss_index: embeddings = [chunk['embedding'] for chunk in chunks]
EmbeddingsOf(chunks) == [i \in 1..Len(chunks) |-> chunks[i].embedding]

\* np.array(embeddings, dtype='float32'): a matrix when every row has the
\* length of the first one, ValueError (ok = FALSE) for a ragged list.
ToMatrixTruncating(embs) ==
    [ok |-> TRUE,
     rows |-> [i \in 1..Len(embs) |->
                  [j \in 1..Len(embs[1]) |->
                      IF j <= Len(embs[i]) THEN embs[i][j] ELSE 0]]]
ToMatrix(embs) ==
    IF \A i \in DOMAIN embs : Len(embs[i]) = Len(embs[1])
    THEN [ok |-> TRUE, rows |-> embs]
    ELSE [ok |-> FALSE, rows |-> <<>>]

\* index = faiss.IndexFlatL2(vector_dimension); index.add(embeddings_matrix)
FlatL2Index(rows) == [d |-> Len(rows[1]), xb |-> rows]

\* json.dump writes the integer key i of index_to_chunk as the string str(i);
\* search_index looks a position up under str(idx).
JsonKey(i) == ToString(i)

\* create_faiss_index: index_to_chunk = {i: {page_content, metadata} for
\* i, chunk in enumerate(chunks)}, as it is once dumped to MAPPING_FILE.
ChunkMapFromOne(chunks) ==
    [key \in {JsonKey(i) : i \in 1..Len(chunks)} |->
        LET i == CHOOSE j \in 1..Len(chunks) : JsonKey(j) = key
        IN [page_content |-> chunks[i].page_content,
            metadata |-> chunks[i].metadata]]
ChunkMap(chunks) ==
    [key \in {JsonKey(i) : i \in 0..Len(chunks) - 1} |->
        LET i == CHOOSE j \in 0..Len(chunks) - 1 : JsonKey(j) = key
        IN [page_content |-> chunks[i + 1].page_content,
            metadata |-> chunks[i + 1].metadata]]

\* The artifacts an earlier, completed build left behind: m chunks of an
\* older corpus.
OldChunk(i) ==
    [page_content |-> "old", metadata |-> [chunk_id |-> 0 - i],
     embedding |-> <<i % 2, 0>>]
OldList(m) == [i \in 1..m |-> OldChunk(i)]

\* Squared Euclidean distance, the metric of IndexFlatL2.
RECURSIVE SqDist(_, _)
SqDist(x, y) ==
    IF x = <<>> THEN 0
    ELSE (Head(x) - Head(y)) * (Head(x) - Head(y)) + SqDist(Tail(x), Tail(y))

\* The distance faiss reports in a result slot it could not fill (label -1).
FLT_MAX == 2147483647

\* index.search(query_vector_np, k): the k nearest stored vectors, nearest
\* first, as (labels, distances); slots beyond ntotal hold label -1.  The
\* order of stored vectors at the same distance is not specified by faiss:
\* every order is a possible result.
SearchFarthestFirst(idx, q, kk) ==
    LET n == Len(idx.xb)
    IN {[labels |-> [i \in 1..kk |-> IF i <= n THEN p[i] - 1 ELSE 0 - 1],
         distances |-> [i \in 1..kk |->
                           IF i <= n THEN SqDist(q, idx.xb[p[i]]) ELSE FLT_MAX]]
           : p \in {r \in Permutations(1..n) :
                       \A i, j \in 1..n :
                           i < j => SqDist(q, idx.xb[r[i]]) >= SqDist(q, idx.xb[r[j]])}}
SearchL2(idx, q, kk) ==
    LET n == Len(idx.xb)
    IN {[labels |-> [i \in 1..kk |-> IF i <= n THEN p[i] - 1 ELSE 0 - 1],
         distances |-> [i \in 1..kk |->
                           IF i <= n THEN SqDist(q, idx.xb[p[i]]) ELSE FLT_MAX]]
           : p \in {r \in Permutations(1..n) :
                       \A i, j \in 1..n :
                           i < j => SqDist(q, idx.xb[r[i]]) <= SqDist(q, idx.xb[r[j]])}}

\* search_index / search_faiss_index: for i, idx in enumerate(indices[0]):
\* retrieved_chunk = index_to_chunk.get(str(idx)); if retrieved_chunk: append.
RECURSIVE ResolveDenseFrom(_, _, _, _, _)
ResolveDenseFrom(i, n, lbls, dsts, table) ==
    IF i > Len(lbls) THEN <<>>
    ELSE IF JsonKey(lbls[i]) \in DOMAIN table
         THEN <<[content |-> table[JsonKey(lbls[i])].page_content,
                 metadata |-> table[JsonKey(lbls[i])].metadata,
                 distance |-> dsts[n]]>>
              \o ResolveDenseFrom(i + 1, n + 1, lbls, dsts, table)
         ELSE ResolveDenseFrom(i + 1, n, lbls, dsts, table)
RECURSIVE ResolveFrom(_, _, _, _)
ResolveFrom(i, lbls, dsts, table) ==
    IF i > Len(lbls) THEN <<>>
    ELSE (IF JsonKey(lbls[i]) \in DOMAIN table
          THEN <<[content |-> table[JsonKey(lbls[i])].page_content,
                  metadata |-> table[JsonKey(lbls[i])].metadata,
                  distance |-> dsts[i]]>>
          ELSE <<>>)
         \o ResolveFrom(i + 1, lbls, dsts, table)
ResolveMisaligned(lbls, dsts, table) == ResolveDenseFrom(1, 1, lbls, dsts, table)
ResolvePadded(lbls, dsts, table) ==
    ResolveFrom(1, [i \in DOMAIN lbls |-> IF lbls[i] < 0 THEN 0 ELSE lbls[i]],
                dsts, table)
Resolve(lbls, dsts, table) == ResolveFrom(1, lbls, dsts, table)

EmbedIdle ==
    /\ chunksFile = NoFile /\ mainpc = "idle"
    /\ bpc = <<>> /\ attempt = <<>> /\ requests = <<>> /\ slept = <<>>
    /\ failures = <<>> /\ served = <<>> /\ embeddings = <<>> /\ bresult = <<>>
    /\ completed = <<>> /\ embedded_chunks = <<>> /\ log = {}

InitIndex ==
    /\ AnswerIdle /\ ChunkIdle
    /\ EmbedIdle
    /\ token \in BOOLEAN
    /\ embeddingsFile \in {NoFile} \cup {File(c) : c \in EmbeddedLists}
    /\ \E m \in 0..MaxVecs :
          /\ priorIndexFile =
                IF m = 0 THEN NoFile
                ELSE File(FlatL2Index(EmbeddingsOf(OldList(m))))
          /\ priorMappingFile =
                IF m = 0 THEN NoFile ELSE File(ChunkMap(OldList(m)))
    /\ indexFile = priorIndexFile
    /\ mappingFile = priorMappingFile
    /\ buildpc = "start" /\ loadpc = "idle"
    /\ index = NoFile /\ index_to_chunk = NoFile
    /\ searchpc = "idle" /\ searcher = "none"
    /\ used_index = NoIndex /\ used_table = <<>> /\ query_requests = 0
    /\ query_vector = <<>> /\ k = 0
    /\ labels = <<>> /\ distances = <<>> /\ results = <<>>

\* embed_query: what the embedding service answers for the query.
QueryReplies ==
    {[ok |-> FALSE, vec |-> <<>>]} \cup {[ok |-> TRUE, vec |-> v] : v \in Vectors}

searchVars == <<searchpc, searcher, used_index, used_table, query_requests,
               query_vector, k, labels, distances, results>>
loadVars == <<loadpc, index, index_to_chunk>>

\* create_faiss_index lines 22-58: load embeddings.json, build the matrix and
\* the index, write the index file.
BuildIndex ==
    /\ buildpc = "start"
    /\ IF ~embeddingsFile.exists THEN
          /\ buildpc' = "no_embeddings" /\ indexFile' = indexFile
       ELSE IF embeddingsFile.data = <<>> THEN
          /\ buildpc' = "empty" /\ indexFile' = indexFile
       ELSE LET m == ToMatrix(EmbeddingsOf(embeddingsFile.data))
            IN IF ~m.ok
               THEN /\ buildpc' = "failed" /\ indexFile' = indexFile
               ELSE /\ buildpc' = "index_written"
                    /\ indexFile' = File(FlatL2Index(m.rows))
    /\ UNCHANGED <<embedVars, answerVars, chunkVars, embeddingsFile, mappingFile, priorIndexFile,
                   priorMappingFile, loadVars, searchVars>>

\* create_faiss_index lines 60-73: build the side-table and write it.
BuildMapping ==
    /\ buildpc = "index_written"
    /\ mappingFile' = File(ChunkMap(embeddingsFile.data))
    /\ buildpc' = "done"
    /\ UNCHANGED <<embedVars, answerVars, chunkVars, embeddingsFile, indexFile, priorIndexFile,
                   priorMappingFile, loadVars, searchVars>>

\* retriever.py lines 22-30: both files must exist; read the index.
LoadIndex ==
    /\ loadpc = "idle"
    /\ IF indexFile.exists /\ mappingFile.exists
       THEN /\ index' = indexFile /\ loadpc' = "index_read"
       ELSE /\ index' = index /\ loadpc' = "load_failed"
    /\ UNCHANGED <<embedVars, answerVars, chunkVars, embeddingsFile, indexFile, mappingFile,
                   priorIndexFile, priorMappingFile, buildpc, index_to_chunk,
                   searchVars>>

\* retriever.py lines 31-33: read the side-table.
LoadMapping ==
    /\ loadpc = "index_read"
    /\ index_to_chunk' = mappingFile
    /\ loadpc' = "loaded"
    /\ UNCHANGED <<embedVars, answerVars, chunkVars, embeddingsFile, indexFile, mappingFile,
                   priorIndexFile, priorMappingFile, buildpc, index, searchVars>>

\* The body shared by search_index (retriever.py 58-74) and search_faiss_index
\* (faiss_index.py 108-143) once an index and a side-table are at hand: embed
\* the query, search, resolve.  reply is the embedding service's answer to
\* embed_query: a vector, or a request or status error (ok = FALSE).
\* Searches share no state and change none, so a run follows one of them,
\* placed anywhere among the steps of the build and of the load.
SearchWith(who, idx, table, reply, kk) ==
    /\ searchpc = "idle"
    /\ searcher' = who
    /\ used_index' = idx
    /\ used_table' = table
    /\ k' = kk
    /\ query_requests' = IF MissingKey(token) THEN 0 ELSE 1
    /\ IF MissingKey(token) THEN
          /\ searchpc' = "config_error"
          /\ query_vector' = <<>> /\ labels' = <<>> /\ distances' = <<>>
          /\ results' = <<>>
       ELSE IF ~reply.ok THEN
          /\ searchpc' = IF who = "search_index" THEN "upstream_error"
                         ELSE "returned_none"
          /\ query_vector' = <<>> /\ labels' = <<>> /\ distances' = <<>>
          /\ results' = <<>>
       ELSE IF Len(reply.vec) # idx.d THEN
          /\ searchpc' = "dimension_error"
          /\ query_vector' = reply.vec /\ labels' = <<>> /\ distances' = <<>>
          /\ results' = <<>>
       ELSE \E found \in SearchL2(idx, reply.vec, kk) :
          /\ searchpc' = "returned"
          /\ query_vector' = reply.vec
          /\ labels' = found.labels
          /\ distances' = found.distances
          /\ results' = Resolve(found.labels, found.distances, table)

\* retriever.search_index(query, k) against the loaded index and side-table.
SearchIndex(reply, kk) ==
    /\ loadpc = "loaded"
    /\ SearchWith("search_index", index.data, index_to_chunk.data, reply, kk)
    /\ UNCHANGED <<embedVars, answerVars, chunkVars, embeddingsFile, indexFile, mappingFile,
                   priorIndexFile, priorMappingFile, buildpc, loadVars>>

\* faiss_index.search_faiss_index(query, k): reads both files, then searches.
SearchFaissIndex(reply, kk) ==
    /\ indexFile.exists /\ mappingFile.exists
    /\ SearchWith("search_faiss_index", indexFile.data, mappingFile.data, reply, kk)
    /\ UNCHANGED <<embedVars, answerVars, chunkVars, embeddingsFile, indexFile, mappingFile,
                   priorIndexFile, priorMappingFile, buildpc, loadVars>>

NextIndex ==
    \/ BuildIndex
    \/ BuildMapping
    \/ LoadIndex
    \/ LoadMapping
    \/ \E reply \in QueryReplies : \E kk \in 1..MaxK : SearchIndex(reply, kk)
    \/ \E reply \in QueryReplies : \E kk \in 1..MaxK : SearchFaissIndex(reply, kk)

SpecIndex == InitIndex /\ [][NextIndex]_vars

----------------------------------------------------------------------------
\* The credential: one embedding run (src/embed.py) and the searches of
\* src/retriever.py and src/faiss_index.py in the same environment, over the
\* artifacts of an earlier build.

InitCredential ==
    /\ AnswerIdle /\ ChunkIdle
    /\ chunksFile \in {NoFile} \cup {File(ChunkList(n)) : n \in 0..BATCH_SIZE}
    /\ token \in BOOLEAN
    /\ embeddingsFile \in {NoFile, File(StaleEmbeddings)}
    /\ mainpc = "start"
    /\ bpc = [b \in Batches |-> "created"]
    /\ attempt = [b \in Batches |-> 0]
    /\ requests = [b \in Batches |-> 0]
    /\ slept = [b \in Batches |-> 0]
    /\ failures = [b \in Batches |-> 0]
    /\ served = [b \in Batches |-> <<>>]
    /\ embeddings = [b \in Batches |-> None]
    /\ bresult = [b \in Batches |-> <<>>]
    /\ completed = <<>>
    /\ embedded_chunks = <<>>
    /\ log = {}
    /\ \E m \in 1..MaxVecs :
          /\ priorIndexFile = File(FlatL2Index(EmbeddingsOf(OldList(m))))
          /\ priorMappingFile = File(ChunkMap(OldList(m)))
    /\ indexFile = priorIndexFile
    /\ mappingFile = priorMappingFile
    /\ buildpc = "idle" /\ loadpc = "idle"
    /\ index = NoFile /\ index_to_chunk = NoFile
    /\ searchpc = "idle" /\ searcher = "none"
    /\ used_index = NoIndex /\ used_table = <<>> /\ query_requests = 0
    /\ query_vector = <<>> /\ k = 0
    /\ labels = <<>> /\ distances = <<>> /\ results = <<>>

NextCredential ==
    \/ NextEmbed
    \/ LoadIndex
    \/ LoadMapping
    \/ \E reply \in QueryReplies : \E kk \in 1..MaxK : SearchIndex(reply, kk)
    \/ \E reply \in QueryReplies : \E kk \in 1..MaxK : SearchFaissIndex(reply, kk)

SpecCredential == InitCredential /\ [][NextCredential]_vars

----------------------------------------------------------------------------
\* Claims about src/embed.py, checked under SpecEmbed.

\* embed_batch returned None to task b: its retries are exhausted.
BatchFailed(b) == bpc[b] = "returned" /\ embeddings[b].none
\* embed_batch returned embeddings to task b and process_batch paired them.
BatchEmbedded(b) == bpc[b] = "returned" /\ ~embeddings[b].none

\* The chunks of batch b, each with the embedding the service served at the
\* chunk's own place in the reply to b.
ServedFor(b) ==
    LET batch == BatchOf(chunksFile.data, b)
    IN [i \in 1..Len(batch) |->
           [page_content |-> batch[i].page_content, metadata |-> batch[i].metadata,
            embedding |-> served[b][i].embedding]]

\* The input chunk sequence from batch b on, without the failed batches.
RECURSIVE SurvivorsFrom(_)
SurvivorsFrom(b) ==
    IF b > NumBatches(chunksFile.data) THEN <<>>
    ELSE (IF embeddings[b].none THEN <<>> ELSE ServedFor(b)) \o SurvivorsFrom(b + 1)

\* C1: a batch that fails after its retries does not abort the run (only a
\* raised exception does); the saved output is the input chunk sequence with
\* exactly the failed batches' chunks removed, in the original order, and each
\* chunk carries the embedding served for its own text at its own place in
\* its own batch.
C1_FailedBatchesExcludedAligned ==
    /\ mainpc = "aborted" => \E b \in Batches : bpc[b] = "raised"
    /\ (mainpc = "gathering" /\ \A b \in Batches : bpc[b] = "returned")
          => \A b \in Batches :
                /\ BatchFailed(b) => bresult[b] = <<>>
                /\ BatchEmbedded(b) => bresult[b] = ServedFor(b)
    /\ mainpc = "done" =>
          /\ embedded_chunks = SurvivorsFrom(1)
          /\ \A i \in DOMAIN embedded_chunks :
                embedded_chunks[i].embedding.of = embedded_chunks[i].page_content
          /\ embedded_chunks # <<>> => embeddingsFile = File(embedded_chunks)

\* C1 witness: a finished run with a failed batch before an embedded batch of
\* two chunks, and the output saved.
C1_Witness ==
    /\ mainpc = "done"
    /\ \E b1, b2 \in Batches :
          /\ b1 < b2
          /\ BatchFailed(b1) /\ failures[b1] = Retries
          /\ BatchEmbedded(b2) /\ Len(bresult[b2]) = 2
    /\ embeddingsFile = File(embedded_chunks)

\* C2 as stated: a batch is reported failed only after Retries (3) retries,
\* that is, after three requests beyond the first one.
C2_FailsAfterThreeRetries ==
    \A b \in Batches : BatchFailed(b) => requests[b] - 1 = Retries

\* C2 amended: embed_batch makes at most Retries (3) requests for a batch, the
\* first one and at most Retries - 1 retries, sleeps Delay once between two
\* consecutive requests, and reports the batch failed exactly when the
\* Retries-th request has failed.
C2_FailsAfterThreeAttempts ==
    \A b \in Batches :
        /\ requests[b] <= Retries
        /\ failures[b] <= requests[b]
        /\ requests[b] > 0 => slept[b] = Delay * (requests[b] - 1)
        /\ BatchFailed(b) <=> failures[b] = Retries
        /\ BatchFailed(b) => requests[b] = Retries /\ slept[b] = Delay * (Retries - 1)

\* C2 witness: a batch reported failed after its third request.
C2_Witness ==
    \E b \in Batches : BatchFailed(b) /\ requests[b] = Retries /\ failures[b] = Retries

\* C3: a batch whose first n requests fail (n < Retries) and whose next one
\* succeeds returns the embeddings of that reply in input order after exactly
\* n retries and n sleeps of Delay; the successful request is the last one.
C3_SucceedsAfterNRetries ==
    \A b \in Batches :
        (~embeddings[b].none /\ bpc[b] \in {"returned", "raised", "cancelled"}) =>
            /\ failures[b] < Retries
            /\ requests[b] = failures[b] + 1
            /\ slept[b] = Delay * failures[b]
            /\ Len(embeddings[b].vecs) = Len(served[b])
            /\ \A i \in DOMAIN served[b] :
                  /\ embeddings[b].vecs[i] = served[b][i].embedding
                  /\ embeddings[b].vecs[i].pos = i
                  /\ embeddings[b].vecs[i].req = <<b, failures[b]>>

\* C3 witness: the batch ["a", "b"] embedded by the third request, after two
\* failures.
C3_Witness ==
    \E b \in Batches :
        /\ BatchEmbedded(b)
        /\ failures[b] = 2
        /\ TextsToEmbed(BatchOf(chunksFile.data, b)) = <<"a", "b">>
        /\ Len(embeddings[b].vecs) = 2

\* C4: whatever the order in which the tasks finish, the chunks of the
\* consolidated list keep the order they have in the input.
C4_OutputInInputOrder ==
    mainpc = "done" =>
        \A i, j \in DOMAIN embedded_chunks :
            i < j => embedded_chunks[i].metadata.chunk_id
                        < embedded_chunks[j].metadata.chunk_id

\* C4 witness: a finished run where a later batch finished before an earlier
\* one (the earlier one was delayed by a retry), both embedded.
C4_Witness ==
    /\ mainpc = "done"
    /\ \E i, j \in DOMAIN completed :
          /\ i < j /\ completed[i] > completed[j]
          /\ BatchEmbedded(completed[i]) /\ BatchEmbedded(completed[j])
          /\ failures[completed[j]] > 0

\* C5: whenever embed_batch hands embeddings to process_batch and they are
\* paired with the chunks, there are exactly as many vectors as texts.
C5_SameLengthOrFailure ==
    \A b \in Batches :
        BatchEmbedded(b) =>
            Len(embeddings[b].vecs) = Len(BatchOf(chunksFile.data, b))

----------------------------------------------------------------------------
\* Claims about src/faiss_index.py and src/retriever.py, checked under
\* SpecIndex.

\* Number of vectors stored in an index, and whether a side-table has an
\* entry for every position of it.
Size(idx) == Len(idx.xb)
Covers(table, idx) == \A p \in 0..Size(idx) - 1 : JsonKey(p) \in DOMAIN table

\* A search that got a query embedding of the index's dimension.
Searched ==
    /\ searchpc # "idle"
    /\ query_vector # <<>>
    /\ Len(query_vector) = used_index.d

\* The result slots whose position has a side-table entry, and the place of
\* slot i among them.
KeptSlots == {i \in DOMAIN labels : JsonKey(labels[i]) \in DOMAIN used_table}
RankOf(i) == Cardinality({j \in KeptSlots : j <= i})
EntryOf(p, dist) ==
    [content |-> used_table[JsonKey(p)].page_content,
     metadata |-> used_table[JsonKey(p)].metadata,
     distance |-> dist]

\* C6: a search with k greater than the number N of stored vectors, on an
\* index whose positions all have a side-table entry, ends without an error
\* and returns exactly N results, one per stored position, nearest first.
C6_KBeyondSizeReturnsAll ==
    (Searched /\ k > Size(used_index) /\ Covers(used_table, used_index)) =>
        /\ searchpc = "returned"
        /\ Len(results) = Size(used_index)
        /\ \A p \in 0..Size(used_index) - 1 :
              Cardinality({i \in DOMAIN results :
                              results[i] = EntryOf(p, SqDist(query_vector,
                                                             used_index.xb[p + 1]))
                              /\ labels[i] = p}) = 1
        /\ \A i, j \in DOMAIN results :
              i < j => results[i].distance <= results[j].distance

\* C6 witness: search_index with k = 3 on a loaded index of 2 vectors at
\* different distances from the query, the side-table complete.
C6_Witness ==
    /\ Searched /\ searcher = "search_index"
    /\ k = 3 /\ Size(used_index) = 2
    /\ Covers(used_table, used_index)
    /\ Len(results) = 2
    /\ results[1].distance < results[2].distance

\* C7: a search that ran returns, for exactly the slots whose position has a
\* side-table entry and in the order of the slots, the content and metadata
\* the side-table holds for that position and the distance of that slot; the
\* slots whose position has no entry are dropped and nothing is raised.
C7_MissingEntryDropped ==
    Searched =>
        /\ searchpc = "returned"
        /\ Len(labels) = k /\ Len(distances) = k
        /\ Len(results) = Cardinality(KeptSlots)
        /\ \A i \in KeptSlots :
              /\ results[RankOf(i)] = EntryOf(labels[i], distances[i])
              /\ distances[i] = SqDist(query_vector, used_index.xb[labels[i] + 1])

\* C7 witness: search_index found a stored position with no side-table entry
\* ahead of a position that has one, and returned the latter.
C7_Witness ==
    /\ searchpc = "returned" /\ searcher = "search_index"
    /\ \E i, j \in DOMAIN labels :
          /\ i < j
          /\ labels[i] >= 0 /\ i \notin KeptSlots
          /\ j \in KeptSlots
          /\ distances[i] < distances[j]
    /\ Len(results) >= 1

\* C8: after a successful create_faiss_index the index file holds as many
\* vectors as the side-table file holds entries, and position p holds the
\* vector, and its entry the page_content and metadata, of the p-th record of
\* embeddings.json.
C8_IndexAndSideTableAgree ==
    buildpc = "done" =>
        /\ indexFile.exists /\ mappingFile.exists
        /\ Size(indexFile.data) = Len(embeddingsFile.data)
        /\ Cardinality(DOMAIN mappingFile.data) = Size(indexFile.data)
        /\ \A p \in 0..Size(indexFile.data) - 1 :
              /\ JsonKey(p) \in DOMAIN mappingFile.data
              /\ mappingFile.data[JsonKey(p)] =
                    [page_content |-> embeddingsFile.data[p + 1].page_content,
                     metadata |-> embeddingsFile.data[p + 1].metadata]
              /\ indexFile.data.xb[p + 1] = embeddingsFile.data[p + 1].embedding

\* C8 witness: a build of two records finished over the artifacts of an
\* earlier build of one record.
C8_Witness ==
    /\ buildpc = "done"
    /\ Len(embeddingsFile.data) = 2
    /\ priorIndexFile.exists /\ Size(priorIndexFile.data) = 1

\* A search_index call of a retriever that loaded the artifacts of the
\* finished build.
SearchedThisBuild ==
    /\ buildpc = "done"
    /\ loadpc = "loaded" /\ index = indexFile /\ index_to_chunk = mappingFile
    /\ Searched /\ searcher = "search_index"
    /\ used_index = index.data
    /\ used_table = index_to_chunk.data

\* C9 as stated: after build, persist and reload, a query equal to stored
\* vector i returns position i's chunk first, with distance 0, for every i.
C9_ExactMatchFirst ==
    SearchedThisBuild =>
        \A i \in 1..Size(used_index) :
            query_vector = used_index.xb[i] =>
                /\ searchpc = "returned"
                /\ results # <<>>
                /\ results[1] = EntryOf(i - 1, 0)

\* C9 amended: such a query returns first, with distance 0, the chunk of a
\* position whose stored vector equals vector i; that position is i itself
\* whenever no other stored vector equals vector i.
C9_ExactMatchFirstAmongEqual ==
    SearchedThisBuild =>
        \A i \in 1..Size(used_index) :
            query_vector = used_index.xb[i] =>
                /\ searchpc = "returned"
                /\ results # <<>>
                /\ results[1].distance = 0
                /\ \E j \in 1..Size(used_index) :
                      /\ used_index.xb[j] = used_index.xb[i]
                      /\ results[1] = EntryOf(j - 1, 0)
                /\ (\A j \in 1..Size(used_index) :
                       used_index.xb[j] = used_index.xb[i] => j = i)
                      => results[1] = EntryOf(i - 1, 0)

\* C9 witness: search_index, loaded after the build, queried with the second
\* of two different stored vectors and returned its chunk first.
C9_Witness ==
    /\ SearchedThisBuild
    /\ Size(used_index) = 2
    /\ used_index.xb[1] # used_index.xb[2]
    /\ query_vector = used_index.xb[2]
    /\ results # <<>> /\ results[1] = EntryOf(1, 0)

\* embeddings.json holds a vector whose dimension differs from the first one's.
DimensionMismatch ==
    /\ embeddingsFile.exists
    /\ \E i \in DOMAIN embeddingsFile.data :
          Len(embeddingsFile.data[i].embedding)
             # Len(embeddingsFile.data[1].embedding)

\* C10: with such a file create_faiss_index fails before it writes anything:
\* the index file and the side-table file stay as they were.
C10_MismatchWritesNothing ==
    DimensionMismatch =>
        /\ buildpc \in {"start", "failed"}
        /\ indexFile = priorIndexFile
        /\ mappingFile = priorMappingFile

\* C10 witness: the build failed on a mismatch with earlier artifacts in place.
C10_Witness ==
    /\ DimensionMismatch
    /\ buildpc = "failed"
    /\ priorIndexFile.exists /\ indexFile = priorIndexFile

----------------------------------------------------------------------------
\* Claim about the credential, checked under SpecCredential.

\* C11: without AIPIPE_TOKEN no request reaches the embedding service: the
\* embedding run stops at its token check (or before it, on a missing
\* chunks.json) with the error printed and no task started, and a search ends
\* in the configuration error of embed_query with nothing posted.
C11_NoRequestWithoutCredential ==
    ~token =>
        /\ \A b \in Batches : requests[b] = 0 /\ bpc[b] = "created"
        /\ query_requests = 0
        /\ mainpc \in {"start", "no_input", "no_token"}
        /\ (mainpc # "start" /\ chunksFile.exists) =>
              /\ mainpc = "no_token"
              /\ [line |-> "no_token", n |-> 0] \in log
        /\ searchpc \in {"idle", "config_error"}
        /\ embedded_chunks = <<>>

\* C11 witness: no token, the run stopped at the token check with chunks to
\* embed, and search_index ended in the configuration error.
C11_Witness ==
    /\ ~token
    /\ mainpc = "no_token" /\ Len(chunksFile.data) > 0
    /\ searchpc = "config_error" /\ searcher = "search_index"

----------------------------------------------------------------------------
\* Claims about the gather, the report and the error paths of the embedding
\* run, checked under SpecEmbed.

\* The place of task b in the order the tasks finished (0: not finished).
FinishedAt(b) ==
    IF \E i \in DOMAIN completed : completed[i] = b
    THEN CHOOSE i \in DOMAIN completed : completed[i] = b
    ELSE 0

\* C15: consolidation and saving start only once every dispatched batch has
\* its outcome (embeddings, or None after the retries): until main is past
\* the gather nothing is consolidated and the output file is not written, and
\* main is past it only with every task returned.  A batch that fails this
\* way cancels no sibling: a task is cancelled only when some task raised.
C15_JoinBeforeConsolidate ==
    /\ mainpc = "done" =>
          /\ \A b \in Batches : BatchFailed(b) \/ BatchEmbedded(b)
          /\ Len(completed) = NumBatches(chunksFile.data)
    /\ mainpc # "done" =>
          /\ embedded_chunks = <<>>
          /\ embeddingsFile \in {NoFile, File(StaleEmbeddings)}
          /\ \A l \in log : l.line \notin {"embedded", "no_chunks"}
    /\ \A b \in Batches :
          bpc[b] = "cancelled" => \E c \in Batches : bpc[c] = "raised"

\* C15 witness: a finished run in which a batch failed first and a sibling
\* got its embeddings afterwards.
C15_Witness ==
    /\ mainpc = "done"
    /\ \E b, c \in Batches :
          /\ BatchFailed(b) /\ BatchEmbedded(c)
          /\ FinishedAt(b) > 0 /\ FinishedAt(b) < FinishedAt(c)

C17_NothingEmbeddedFileUntouched ==
    [][embedded_chunks' = <<>> => embeddingsFile' = embeddingsFile]_vars

\* C17 witness: the run finished with every batch failed and the file of the
\* earlier run is still the one on disk.
C17_Witness ==
    /\ mainpc = "done"
    /\ Batches # {}
    /\ \A b \in Batches : BatchFailed(b)
    /\ embeddingsFile = File(StaleEmbeddings)

\* C18: whatever error answers a request (4xx status, 5xx status, request
\* error) it is counted as one failed attempt and is never surfaced at once:
\* before the last attempt the task sleeps (and the retry that follows has
\* slept Delay more), on the last attempt embed_batch returns None.  Every
\* task has slept Delay per retry and made one request per attempt.
C18_EveryErrorRetried ==
    [][\A b \in Batches :
          /\ \A kind \in FailureKinds :
                ReplyFailure(b, kind) =>
                   /\ failures'[b] = failures[b] + 1
                   /\ bpc'[b] # "raised"
                   /\ IF attempt[b] < Retries - 1
                      THEN bpc'[b] = "sleeping"
                      ELSE /\ bpc'[b] = "returned" /\ embeddings'[b].none
                           /\ failures'[b] = Retries
          /\ slept'[b] = Delay * attempt'[b]
          /\ requests'[b] > 0 => requests'[b] = attempt'[b] + 1
          /\ attempt'[b] < Retries]_vars

\* C18 witness: one task gave up after Retries failed requests and two
\* sleeps while another is asleep after its first failure.
C18_Witness ==
    \E b, c \in Batches :
        /\ BatchFailed(b) /\ failures[b] = Retries
        /\ slept[b] = Delay * (Retries - 1)
        /\ bpc[c] = "sleeping" /\ failures[c] = 1

\* C19: a task that raised (body without data, fewer embeddings than texts)
\* made no request after the reply that made it raise and is not reported as
\* a skipped batch; the run does not finish once a task raised, and an
\* aborted run has consolidated nothing and written no output.
C19_RaisedBatchAbortsRun ==
    /\ \A b \in Batches :
          bpc[b] = "raised" =>
             /\ requests[b] = failures[b] + 1
             /\ bresult[b] = <<>>
             /\ [line |-> "skipping_batch", n |-> (b - 1) * BATCH_SIZE] \notin log
             /\ mainpc \in {"gathering", "aborted"}
    /\ mainpc = "aborted" =>
          /\ \E b \in Batches : bpc[b] = "raised"
          /\ embedded_chunks = <<>>
          /\ embeddingsFile \in {NoFile, File(StaleEmbeddings)}
          /\ \A l \in log : l.line = "skipping_batch"

\* C19 witness: the run aborted on a task that raised after a retry, while a
\* sibling had already returned its chunks with their embeddings; no output
\* file exists.
C19_Witness ==
    /\ mainpc = "aborted"
    /\ \E b, c \in Batches :
          /\ bpc[b] = "raised" /\ failures[b] > 0
          /\ BatchEmbedded(c) /\ bresult[c] # <<>>
    /\ embeddingsFile = NoFile

----------------------------------------------------------------------------
\* src/main.py: the /api/ endpoint

\* Calls of the endpoint that are in flight together.
Requests == {"r1", "r2"}

\* Largest number of chunks search_index hands back in the model (k=5 in
\* answer_question).
MaxHits == 2

\* metadata.source_url of a retrieved chunk; "" stands for a chunk without url.
Urls == {"u1", "u2"}

\* One element of the list search_index returns (retriever.py 67-71).
Hit(i, url) ==
    [content |-> "text" \o ToString(i), metadata |-> [source_url |-> url],
     distance |-> i - 1]
RetrievedLists ==
    UNION {{[i \in 1..n |-> Hit(i, us[i])] : us \in [1..n -> Urls \cup {""}]}
              : n \in 0..MaxHits}

\* An exception in flight.  str(e) of an HTTPException is "status: detail".
Exc(type, status, detail) == [type |-> type, status |-> status, detail |-> detail]
NoExc == Exc("none", 0, "")
HTTPException(status, detail) == Exc("HTTPException", status, detail)
StrOf(e) ==
    IF e.type = "HTTPException" THEN ToString(e.status) \o ": " \o e.detail
    ELSE e.detail

\* What `await search_index(request.question, k=5)` can give: a list, or the
\* exception embed_query lets through (ValueError without the token,
\* httpx.RequestError when the embedding service cannot be reached,
\* httpx.HTTPStatusError when it answers with an error status).
Returned(v) == [exc |-> NoExc, value |-> v]
Raised(e) == [exc |-> e, value |-> <<>>]
SearchOutcomes(tok) ==
    IF MissingKey(tok)
    THEN {Raised(Exc("ValueError", 0, "AIPIPE_TOKEN environment variable not set."))}
    ELSE {Returned(l) : l \in RetrievedLists}
         \cup {Raised(Exc("RequestError", 0, "connect failed")),
               Raised(Exc("HTTPStatusError", 0, "Server error '503'"))}

\* What the chat service does with the request of generate_final_answer.
LLMReplies == {"ok", "request_error", "status_error", "no_choices"}

\* generate_final_answer (lines 40-83): the answer, or the exception it raises.
GenerateFinalAnswer(tok, reply) ==
    IF MissingKey(tok)
    THEN Raised(HTTPException(500, "AIPIPE_TOKEN is not configured on the server."))
    ELSE CASE reply = "ok" -> Returned("answer")
           [] reply \in {"request_error", "status_error"} ->
                 Raised(HTTPException(502, "Failed to communicate with the LLM provider"))
           [] OTHER -> Raised(Exc("KeyError", 0, "'choices'"))

\* answer_question lines 106-117: one link per distinct non-empty url, in the
\* order of first appearance, with the start of the chunk's text and '...'.
RECURSIVE SourceLinks(_, _)
SourceLinks(chunks, seen_urls) ==
    IF chunks = <<>> THEN <<>>
    ELSE LET url == Head(chunks).metadata.source_url
         IN IF url # "" /\ url \notin seen_urls
            THEN <<[url |-> url, text |-> Head(chunks).content \o "..."]>>
                    \o SourceLinks(Tail(chunks), seen_urls \cup {url})
            ELSE SourceLinks(Tail(chunks), seen_urls)

\* The responses.  QueryResponse is sent with status 200; an HTTPException
\* that leaves the handler is sent with its status and its detail.
QueryResponse(answer, links) ==
    [status |-> 200, detail |-> "", answer |-> answer, links |-> links]
ErrorResponse(e) ==
    [status |-> e.status, detail |-> e.detail, answer |-> "", links |-> <<>>]
NoResponse == [status |-> 0, detail |-> "", answer |-> "", links |-> <<>>]

\* answer_question lines 122-124: except Exception as e: raise
\* HTTPException(status_code=500, detail=str(e)).  HTTPException is an
\* Exception: the clause catches the ones raised inside the try as well.
CatchAll(e) == HTTPException(500, StrOf(e))

NotFound == HTTPException(404, "Could not find any relevant information for your question.")

InitAnswer ==
    /\ EmbedIdle /\ IndexIdle /\ ChunkIdle
    /\ token \in BOOLEAN
    /\ embeddingsFile = NoFile
    /\ apc = [r \in Requests |-> "idle"]
    /\ retrieved_chunks = [r \in Requests |-> Returned(<<>>)]
    /\ final_answer = [r \in Requests |-> Returned("")]
    /\ response = [r \in Requests |-> NoResponse]

\* A POST /api/ arrives: the handler runs up to `await search_index(...)`.
Receive(r) ==
    /\ apc[r] = "idle"
    /\ apc' = [apc EXCEPT ![r] = "searching"]
    /\ UNCHANGED <<retrieved_chunks, final_answer, response, embedVars,
                   embeddingsFile, indexVars, chunkVars>>

\* search_index is over (lines 94-97).  An exception goes to the except
\* clause; so does the HTTPException(404) raised for an empty list.  With
\* chunks the handler goes on to generate_final_answer, which raises at once
\* without the token and otherwise posts to the chat service.
SearchDone(r, out) ==
    /\ apc[r] = "searching"
    /\ out \in SearchOutcomes(token)
    /\ retrieved_chunks' = [retrieved_chunks EXCEPT ![r] = out]
    /\ IF out.exc # NoExc
       THEN /\ response' = [response EXCEPT ![r] = ErrorResponse(CatchAll(out.exc))]
            /\ apc' = [apc EXCEPT ![r] = "responded"]
            /\ final_answer' = final_answer
       ELSE IF out.value = <<>>
       THEN /\ response' = [response EXCEPT ![r] = ErrorResponse(CatchAll(NotFound))]
            /\ apc' = [apc EXCEPT ![r] = "responded"]
            /\ final_answer' = final_answer
       ELSE IF MissingKey(token)
       THEN /\ final_answer' = [final_answer EXCEPT ![r] =
                                   GenerateFinalAnswer(token, "ok")]
            /\ response' = [response EXCEPT ![r] =
                               ErrorResponse(CatchAll(final_answer'[r].exc))]
            /\ apc' = [apc EXCEPT ![r] = "responded"]
       ELSE /\ apc' = [apc EXCEPT ![r] = "generating"]
            /\ UNCHANGED <<final_answer, response>>
    /\ UNCHANGED <<embedVars, embeddingsFile, indexVars, chunkVars>>

\* The chat service answered (lines 76-83), and the handler finishes: the
\* links and the QueryResponse (lines 106-120), or the except clause.
GenerateDone(r, reply) ==
    /\ apc[r] = "generating"
    /\ reply \in LLMReplies
    /\ LET out == GenerateFinalAnswer(token, reply)
       IN /\ final_answer' = [final_answer EXCEPT ![r] = out]
          /\ response' = [response EXCEPT ![r] =
                IF out.exc # NoExc THEN ErrorResponse(CatchAll(out.exc))
                ELSE QueryResponse(out.value,
                                   SourceLinks(retrieved_chunks[r].value, {}))]
    /\ apc' = [apc EXCEPT ![r] = "responded"]
    /\ UNCHANGED <<retrieved_chunks, embedVars, embeddingsFile, indexVars,
                   chunkVars>>

NextAnswer ==
    \/ \E r \in Requests : Receive(r)
    \/ \E r \in Requests : \E out \in SearchOutcomes(token) : SearchDone(r, out)
    \/ \E r \in Requests : \E reply \in LLMReplies : GenerateDone(r, reply)

SpecAnswer == InitAnswer /\ [][NextAnswer]_vars

----------------------------------------------------------------------------
\* Claim about the endpoint's errors, checked under SpecAnswer.

\* The call got an empty list from search_index.
NoRelevantContent(r) ==
    /\ apc[r] = "responded"
    /\ retrieved_chunks[r].exc = NoExc /\ retrieved_chunks[r].value = <<>>

\* The call failed on a service it depends on: the embedding service could
\* not be reached or answered with an error status, or the chat service did.
UpstreamUnavailable(r) ==
    /\ apc[r] = "responded"
    /\ \/ retrieved_chunks[r].exc.type \in {"RequestError", "HTTPStatusError"}
       \/ final_answer[r].exc.status = 502

\* C12: a call that found no relevant content and a call that failed on an
\* unavailable upstream service end with an error each, and never with the
\* same status.
C12_EmptyDistinctFromUpstream ==
    \A r, s \in Requests :
        (NoRelevantContent(r) /\ UpstreamUnavailable(s)) =>
            /\ response[r].status >= 400 /\ response[s].status >= 400
            /\ response[r].status # response[s].status

----------------------------------------------------------------------------
\* src/chunk_content.py

\* Largest number of records in course_content.json, of threads in
\* discourse.json, and of answers in a thread.
MaxDocs == 2
MaxThreads == 2
MaxAnswers == 2

\* A text field of a record: absent (None), or a string.  A string is the
\* list of the pieces the splitter cuts it into; the empty string has none.
NoText == [present |-> FALSE, pieces |-> <<>>]
StrText(ps) == [present |-> TRUE, pieces |-> ps]

\* `if not content:` -- None and '' alike.
Falsy(text) == ~text.present \/ text.pieces = <<>>

\* text_splitter.create_documents([text]): the page_content of each document.
CreateDocuments(text) == text.pieces

\* text[:80] + '...' inside the f-string of the title; ok = FALSE is the
\* TypeError of subscripting None.
Slice80(text) ==
    IF ~text.present THEN [ok |-> FALSE, str |-> ""]
    ELSE [ok |-> TRUE,
          str |-> (IF text.pieces = <<>> THEN "" ELSE Head(text.pieces)) \o "..."]

\* The records of course_content.json: with or without an 'id', with or
\* without content.
CourseItems ==
    {[has_id |-> h.has, id |-> h.id, content |-> c] :
        h \in {[has |-> FALSE, id |-> ""], [has |-> TRUE, id |-> "tds_1"],
               [has |-> TRUE, id |-> "tds_2"]},
        c \in {NoText, StrText(<<"c1">>), StrText(<<"c1", "c2">>)}}
CourseData ==
    UNION {[1..n -> CourseItems] : n \in 0..MaxDocs}

\* The threads of discourse.json.
Answers == {[text |-> t] : t \in {NoText, StrText(<<"a1">>)}}
Threads ==
    {[question |-> q, answers |-> as] :
        q \in {NoText, StrText(<<>>), StrText(<<"q1", "q2">>)},
        as \in UNION {[1..n -> Answers] : n \in 0..MaxAnswers}}
DiscourseData ==
    UNION {[1..n -> Threads] : n \in 0..MaxThreads}

\* item.get('id', 'course')
ItemId(item) == IF item.has_id THEN item.id ELSE "course"

ChunkRecord(page_content, title, chunk_id) ==
    [page_content |-> page_content,
     metadata |-> [source_title |-> title, chunk_id |-> chunk_id]]

\* chunk_course_content lines 26-45, for one item.
CourseChunks(item) ==
    IF Falsy(item.content) THEN <<>>
    ELSE LET docs == CreateDocuments(item.content)
         IN [n \in 1..Len(docs) |->
                ChunkRecord(docs[n], "title",
                            ItemId(item) \o "_chunk_" \o ToString(n - 1))]

RECURSIVE ChunkCourse(_)
ChunkCourse(course_data) ==
    IF course_data = <<>> THEN <<>>
    ELSE CourseChunks(Head(course_data)) \o ChunkCourse(Tail(course_data))

\* chunk_discourse_content lines 63-75: the question of thread number i.
QuestionChunks(i, thread) ==
    IF Falsy(thread.question) THEN <<>>
    ELSE LET docs == CreateDocuments(thread.question)
         IN [n \in 1..Len(docs) |->
                ChunkRecord(docs[n],
                            "Discourse Question: " \o Slice80(thread.question).str,
                            "discourse_q_" \o ToString(i) \o "_chunk_"
                               \o ToString(n - 1))]

\* Lines 78-92: the answers of thread number i from answer number kk on.  The
\* title of an answer's chunk subscripts question_text: with no question the
\* loop raises at the first answer that has text.
RECURSIVE AnswerChunksFrom(_, _, _)
AnswerChunksFrom(i, thread, kk) ==
    IF kk >= Len(thread.answers) THEN [ok |-> TRUE, chunks |-> <<>>]
    ELSE LET answer == thread.answers[kk + 1]
             rest == AnswerChunksFrom(i, thread, kk + 1)
             docs == CreateDocuments(answer.text)
         IN IF Falsy(answer.text) THEN rest
            ELSE IF ~Slice80(thread.question).ok
            THEN [ok |-> FALSE, chunks |-> <<>>]
            ELSE [ok |-> rest.ok,
                  chunks |->
                     [n \in 1..Len(docs) |->
                         ChunkRecord(docs[n],
                                     "Discourse Answer to: "
                                        \o Slice80(thread.question).str,
                                     "discourse_q_" \o ToString(i) \o "_a_"
                                        \o ToString(kk) \o "_chunk_"
                                        \o ToString(n - 1))]
                     \o rest.chunks]

\* Lines 61-92: the threads from number i on; ok = FALSE when a thread raised,
\* with the chunks appended before it did.
RECURSIVE ChunkDiscourseFrom(_, _)
ChunkDiscourseFrom(discourse_data, i) ==
    IF i >= Len(discourse_data) THEN [ok |-> TRUE, chunks |-> <<>>]
    ELSE LET thread == discourse_data[i + 1]
             qs == QuestionChunks(i, thread)
             as == AnswerChunksFrom(i, thread, 0)
             rest == ChunkDiscourseFrom(discourse_data, i + 1)
         IN IF ~as.ok THEN [ok |-> FALSE, chunks |-> qs \o as.chunks]
            ELSE [ok |-> rest.ok, chunks |-> qs \o as.chunks \o rest.chunks]

InitChunk ==
    /\ EmbedIdle /\ IndexIdle /\ AnswerIdle
    /\ token = TRUE
    /\ embeddingsFile = NoFile
    /\ courseFile \in {NoFile} \cup {File(d) : d \in CourseData}
    /\ discourseFile \in {NoFile} \cup {File(d) : d \in DiscourseData}
    /\ all_chunks = <<>>
    /\ chunkpc = "start"

\* main() line 110: chunk_course_content(text_splitter, all_chunks)
ChunkCourseContent ==
    /\ chunkpc = "start"
    /\ all_chunks' = IF courseFile.exists
                     THEN all_chunks \o ChunkCourse(courseFile.data)
                     ELSE all_chunks
    /\ chunkpc' = "course_done"
    /\ UNCHANGED <<courseFile, discourseFile, embedVars, embeddingsFile,
                   indexVars, answerVars>>

\* main() line 111: chunk_discourse_content(text_splitter, all_chunks); the
\* TypeError of a thread leaves the function and main().
ChunkDiscourseContent ==
    /\ chunkpc = "course_done"
    /\ LET out == IF discourseFile.exists
                  THEN ChunkDiscourseFrom(discourseFile.data, 0)
                  ELSE [ok |-> TRUE, chunks |-> <<>>]
       IN /\ all_chunks' = all_chunks \o out.chunks
          /\ chunkpc' = IF out.ok THEN "discourse_done" ELSE "raised"
    /\ UNCHANGED <<courseFile, discourseFile, embedVars, embeddingsFile,
                   indexVars, answerVars>>

\* main() lines 114-120: json.dump(all_chunks) to OUTPUT_FILE, the chunks.json
\* embed.py reads.
SaveChunks ==
    /\ chunkpc = "discourse_done"
    /\ chunksFile' = File(all_chunks)
    /\ chunkpc' = "done"
    /\ UNCHANGED <<token, mainpc, bpc, attempt, requests, slept, failures,
                   served, embeddings, bresult, completed, embedded_chunks, log,
                   courseFile, discourseFile, all_chunks, embeddingsFile,
                   indexVars, answerVars>>

NextChunk ==
    \/ ChunkCourseContent
    \/ ChunkDiscourseContent
    \/ SaveChunks

SpecChunk == InitChunk /\ [][NextChunk]_vars

----------------------------------------------------------------------------
\* Claims about the chunker, checked under SpecChunk.

\* C13: no two chunk records emitted in a run carry the same chunk_id.
C13_ChunkIdsUnique ==
    \A m, n \in DOMAIN all_chunks :
        m # n => all_chunks[m].metadata.chunk_id # all_chunks[n].metadata.chunk_id

\* The number of pieces of text in the two inputs that are not empty or absent.
RECURSIVE PiecesOfCourse(_)
PiecesOfCourse(items) ==
    IF items = <<>> THEN 0
    ELSE Len(Head(items).content.pieces) + PiecesOfCourse(Tail(items))
RECURSIVE PiecesOfAnswers(_)
PiecesOfAnswers(as) ==
    IF as = <<>> THEN 0
    ELSE Len(Head(as).text.pieces) + PiecesOfAnswers(Tail(as))
RECURSIVE PiecesOfThreads(_)
PiecesOfThreads(ts) ==
    IF ts = <<>> THEN 0
    ELSE Len(Head(ts).question.pieces) + PiecesOfAnswers(Head(ts).answers)
            + PiecesOfThreads(Tail(ts))

\* C14: a record with an empty or absent text is skipped and the run goes on:
\* it never ends in an exception, and once both passes are over every piece
\* of text of every other record has become a chunk.
C14_MalformedRecordSkipped ==
    /\ chunkpc # "raised"
    /\ chunkpc \in {"discourse_done", "done"} =>
          Len(all_chunks) = PiecesOfCourse(courseFile.data)
                               + PiecesOfThreads(discourseFile.data)
    /\ chunkpc = "done" => chunksFile = File(all_chunks)

====
